---------------------------- MODULE Spec2Model ----------------------------
(***************************************************************************)
(* Model of tap_outbrain (src/tap_outbrain/__init__.py): the incremental   *)
(* sync of campaigns and of their daily performance rows.                  *)
(*                                                                         *)
(* Dates are day ordinals: the ISO 'YYYY-MM-DD' strings the tap keeps in   *)
(* its state order exactly as the days they name, and strptime followed by *)
(* timedelta arithmetic is arithmetic on the ordinal.                      *)
(* Time is counted in seconds since the last report request ended, which   *)
(* is all that the pacer reads of the clock.                               *)
(***************************************************************************)
EXTENDS Integers, Sequences, FiniteSets, TLC

(***************************************************************************)
(* Program constants.                                                      *)
(***************************************************************************)
TAP_CAMPAIGN_COUNT_ERROR_CEILING == 660
MARKETERS_CAMPAIGNS_MAX_LIMIT == 50
REPORTS_MARKETERS_PERIODIC_MAX_LIMIT == 500
\* max_tries of the backoff decorator of request()
MAX_TRIES == 5
\* interval of the backoff decorator of request()
BACKOFF_INTERVAL == 30
\* the pacer's minimum spacing of report requests
MIN_SPACING == 30
\* the re-fetch overlap of sync_performance
OVERLAP_DAYS == 2

(***************************************************************************)
(* Bounds of the model.                                                    *)
(***************************************************************************)
\* datetime.date.today() of the runs, as a day ordinal
Today == 1000
\* campaign ids the listing endpoint knows: 1..MaxCampaigns
MaxCampaigns == 2
\* rows of one report response
MaxRows == 2
\* days of the planner's harness: 0..MaxDay
MaxDay == 6
\* window lengths of the planner's harness: 1..MaxInterval
MaxInterval == 4

Ids == 1..MaxCampaigns
\* None: no cursor, no date
NoDate == 0 - 1
\* no report request has ended in this run
NoTime == 0 - 1
\* the clock saturates one second past the pacer's minimum
TimeCap == MIN_SPACING + 1
\* seconds by which the clock advances in one step of the environment
TickSteps == {20}

\* config['start_date'][:10] of the runs
StartDates == {Today - REPORTS_MARKETERS_PERIODIC_MAX_LIMIT, Today,
               Today + OVERLAP_DAYS, Today + OVERLAP_DAYS + 1}
\* totalCount values of a listing response
TotalCounts == {0, 51, TAP_CAMPAIGN_COUNT_ERROR_CEILING + 1}
StreamIds == {"campaign", "campaign_performance"}
\* catalog.streams
catalog == <<"campaign", "campaign_performance">>
REQUIRED_CONFIG_KEYS == {"start_date", "account_id", "access_token"}
\* outcomes of one HTTP attempt
Outcomes == {"ok", "network", "http429", "http5xx", "http4xx"}

Min(a, b) == IF a < b THEN a ELSE b
Max(a, b) == IF a < b THEN b ELSE a

(***************************************************************************)
(* get_date_ranges(start, end, interval_in_days)                           *)
(***************************************************************************)
RangeTo(interval_start, end, interval_in_days) ==
    Min(end, interval_start + (interval_in_days - 1))

\* the loop condition: while interval_start < end
RangeContinues(interval_start, end) == interval_start < end

RECURSIVE RangesFrom(_, _, _)
RangesFrom(interval_start, end, interval_in_days) ==
    IF RangeContinues(interval_start, end)
    THEN << [from_date |-> interval_start,
             to_date |-> RangeTo(interval_start, end, interval_in_days)] >>
         \o RangesFrom(interval_start + interval_in_days, end, interval_in_days)
    ELSE << >>

\* variant: the windows are returned latest first
get_date_ranges_desc(start, end, interval_in_days) ==
    LET r == IF start > end
             THEN << >>
             ELSE RangesFrom(start, end, interval_in_days)
    IN  [i \in 1..Len(r) |-> r[Len(r) + 1 - i]]

\* variant: a start after the end gives the one window between the two
get_date_ranges_swapped(start, end, interval_in_days) ==
    IF start > end
    THEN << [from_date |-> end, to_date |-> start] >>
    ELSE RangesFrom(start, end, interval_in_days)

get_date_ranges(start, end, interval_in_days) ==
    IF start > end THEN << >> ELSE RangesFrom(start, end, interval_in_days)

(***************************************************************************)
(* request(): the backoff decorator's decision after a failed attempt.     *)
(***************************************************************************)
\* singer.requests.giveup_on_http_4xx_except_429: an error that carries a
\* response whose status is neither 429 nor 5xx is not retried
GiveUp(outcome) == outcome = "http4xx"

\* variant: one attempt more than max_tries
Retries_six(n, outcome) == ~GiveUp(outcome) /\ n < MAX_TRIES + 1

\* after the n-th attempt failed with outcome: is another attempt made
Retries(n, outcome) == ~GiveUp(outcome) /\ n < MAX_TRIES

(***************************************************************************)
(* get_campaign_pages(): the guard and the loop condition.                 *)
(***************************************************************************)
\* variant: the guard off by one
CeilingExceeded_off(totalCount) ==
    TAP_CAMPAIGN_COUNT_ERROR_CEILING + 1 < totalCount

CeilingExceeded(totalCount) == TAP_CAMPAIGN_COUNT_ERROR_CEILING < totalCount

\* variant: <= in place of <
MoreCampaigns_le(off, totalCount) ==
    (off + MARKETERS_CAMPAIGNS_MAX_LIMIT) <= totalCount

MoreCampaigns(off, totalCount) ==
    (off + MARKETERS_CAMPAIGNS_MAX_LIMIT) < totalCount

\* variant: the offset counts pages, not campaigns
NextOffset_one(off) == off + 1

\* offset += MARKETERS_CAMPAIGNS_MAX_LIMIT
NextOffset(off) == off + MARKETERS_CAMPAIGNS_MAX_LIMIT

(***************************************************************************)
(* The report endpoint: the rows of one response, sorted by fromDate       *)
(* (sort=+fromDate), one row per day, days of the requested window.        *)
(***************************************************************************)
\* the days the endpoint has rows for: the first days of the window and its
\* last day
RowDates(w) ==
    {d \in (w.from_date .. (w.from_date + MaxRows - 2)) \cup {w.to_date} :
        d <= w.to_date}

RECURSIVE SortedSeq(_)
SortedSeq(S) ==
    IF S = {} THEN << >>
    ELSE LET m == CHOOSE x \in S : \A y \in S : x <= y
         IN << m >> \o SortedSeq(S \ {m})

ReportResults(w) == {SortedSeq(S) : S \in SUBSET RowDates(w)}

\* the listing endpoint: it returns the campaigns in the order of their ids,
\* each once in a walk
ListingCampaigns(seen) ==
    {SortedSeq(S) : S \in SUBSET {i \in Ids : \A j \in seen : j < i}}

Last(s) == s[Len(s)]

\* time.time() moving on by d seconds, saturating
Advance(t, d) == IF t = NoTime THEN NoTime ELSE Min(TimeCap, t + d)

EmptyState == [i \in Ids |-> NoDate]

VARIABLES
    pc,            \* position of the run
    abort,         \* the exception that ended the run, "none" otherwise
    stateFile,     \* what the previous run's last write_state persisted
    config,        \* the keys present in args.config
    start_date,    \* config['start_date'][:10]
    selected,      \* the selected stream ids
    stream_idx,    \* position of do_sync's loop over catalog.streams
    state,         \* state['campaign_performance']
    persisted,     \* the last snapshot written by singer.write_state in this run
    offset,        \* get_campaign_pages: offset
    campaign_page, \* get_campaign_pages: the page last retrieved
    campaigns,     \* sync_campaign_page: campaigns still to sync
    listed,        \* campaigns the listing returned in this walk
    campaign,      \* state_sub_id of the running sync_performance
    date_ranges,   \* sync_performance: windows still to request
    date_range,    \* sync_performance: the window being processed
    results,       \* response.get('results'), as fromDates
    has_total,     \* whether the response carries totalResults
    to_emit,       \* records of the window not yet written
    emitted,       \* records of the window written, in order
    tries,         \* attempts made by the running request() call
    last_outcome,  \* outcome of the latest attempt of the running call
    elapsed,       \* seconds since the last report request ended
    to_sleep,      \* the pacer's to_sleep
    emits,         \* 'campaign' records written per campaign in this run
    first_from,    \* 'from' of the first report request per campaign in this run
    page_activity, \* what was written or requested since the page was retrieved
    announced,     \* singer.write_schema calls per stream in this run
    recorded,      \* the stream names under which a record was written
    early,         \* the names that had a record written with no schema yet
    planned,       \* windows planned by the running sync_performance call
    calls,         \* request() calls made by the running sync_performance call
    listing_total, \* pagination harness: the campaigns of the synthetic listing
    requested,     \* pagination harness: the offsets requested, in order
    yielded,       \* pagination harness: the items of the yielded pages, in order
    yielded_pages, \* pagination harness: the number of pages yielded
    dr_start,      \* planner harness: start
    dr_end,        \* planner harness: end
    dr_interval    \* planner harness: interval_in_days

ctlVars == << pc, abort >>
harnessVars == << listing_total, requested, yielded, yielded_pages, dr_start,
                 dr_end, dr_interval >>
\* what no step of a run changes: its inputs, and the harnesses' variables
inputVars == << stateFile, config, start_date, selected, harnessVars >>
stVars == << state, persisted >>
pageVars == << offset, campaign_page, campaigns, listed >>
perfVars == << campaign, date_ranges, date_range, results, has_total,
               to_emit, emitted >>
reqVars == << tries, last_outcome >>
clockVars == << elapsed, to_sleep >>
monVars == << emits, first_from, page_activity >>
\* what the run has written to its output, and the progress of the running
\* sync_performance call
obsVars == << announced, recorded, early, planned, calls >>

vars == << ctlVars, inputVars, stream_idx, stVars, pageVars, perfVars,
           reqVars, clockVars, monVars, obsVars >>

NoPage == [totalCount |-> NoDate, campaigns |-> << >>]
NoRange == [from_date |-> NoDate, to_date |-> NoDate]

\* the locals and the outputs of a process that has just started
Fresh ==
    /\ abort = "none"
    /\ stream_idx = 1
    /\ state = EmptyState
    /\ persisted = EmptyState
    /\ offset = 0
    /\ campaign_page = NoPage
    /\ campaigns = << >>
    /\ listed = {}
    /\ campaign = 0
    /\ date_ranges = << >>
    /\ date_range = NoRange
    /\ results = << >>
    /\ has_total = TRUE
    /\ to_emit = << >>
    /\ emitted = << >>
    /\ tries = 0
    /\ last_outcome = "none"
    /\ elapsed = NoTime
    /\ to_sleep = 0
    /\ emits = [i \in Ids |-> 0]
    /\ first_from = EmptyState
    /\ page_activity = {}
    /\ announced = [n \in StreamIds |-> 0]
    /\ recorded = {}
    /\ early = {}
    /\ planned = 0
    /\ calls = 0

HarnessIdle ==
    /\ listing_total = 0
    /\ requested = << >>
    /\ yielded = << >>
    /\ yielded_pages = 0
    /\ dr_start = 0
    /\ dr_end = 0
    /\ dr_interval = 1

\* a process that has just entered do_sync, for the first run of the tap
Init ==
    /\ pc = "do_sync"
    /\ Fresh
    /\ HarnessIdle
    /\ stateFile = EmptyState
    /\ config \in {REQUIRED_CONFIG_KEYS} \cup
                  {REQUIRED_CONFIG_KEYS \ {k} : k \in REQUIRED_CONFIG_KEYS}
    /\ start_date \in StartDates
    /\ selected \in SUBSET StreamIds

Raise(e) ==
    /\ pc' = "aborted"
    /\ abort' = e

Goto(l) ==
    /\ pc' = l
    /\ abort' = abort

\* a new call of request()
NewCall ==
    /\ tries' = 0
    /\ last_outcome' = "none"

(***************************************************************************)
(* do_sync                                                                 *)
(***************************************************************************)
\* variant: 'start_date' is not looked for
MissingKeys_two(cfg) == {"account_id", "access_token"} \ cfg

\* missing_keys: the keys among account_id, access_token, start_date that
\* are not in config
MissingKeys(cfg) == REQUIRED_CONFIG_KEYS \ cfg

\* the required keys are checked before anything else is done
DoSync ==
    /\ pc = "do_sync"
    /\ IF MissingKeys(config) = {}
       THEN Goto("streams")
       ELSE Raise("RuntimeError")
    /\ UNCHANGED << inputVars, obsVars, stream_idx, stVars, pageVars, perfVars,
                    reqVars, clockVars, monVars >>

\* for stream in catalog.streams: a stream that is not selected is skipped
SkipStream ==
    /\ pc = "streams"
    /\ stream_idx <= Len(catalog)
    /\ catalog[stream_idx] \notin selected
    /\ stream_idx' = stream_idx + 1
    /\ UNCHANGED << ctlVars, inputVars, obsVars, stVars, pageVars, perfVars,
                    reqVars, clockVars, monVars >>

\* singer.write_schema, then api_func_map(stream_id)(...): sync_campaigns for
\* either stream, which starts get_campaign_pages at offset 0
SyncStream ==
    /\ pc = "streams"
    /\ stream_idx <= Len(catalog)
    /\ catalog[stream_idx] \in selected
    /\ announced' = [announced EXCEPT ![catalog[stream_idx]] = @ + 1]
    /\ Goto("get_campaigns_page")
    /\ offset' = 0
    /\ listed' = {}
    /\ NewCall
    /\ UNCHANGED << inputVars, stream_idx, stVars, campaign_page, campaigns,
                    perfVars, clockVars, monVars, recorded, early, planned,
                    calls >>

StreamsDone ==
    /\ pc = "streams"
    /\ stream_idx > Len(catalog)
    /\ Goto("done")
    /\ UNCHANGED << inputVars, obsVars, stream_idx, stVars, pageVars, perfVars,
                    reqVars, clockVars, monVars >>

(***************************************************************************)
(* get_campaign_pages, sync_campaigns, sync_campaign_page                  *)
(***************************************************************************)
\* one attempt of request() for the listing endpoint
GetCampaignsPage ==
    /\ pc = "get_campaigns_page"
    /\ tries' = tries + 1
    /\ \E o \in Outcomes :
        /\ last_outcome' = o
        /\ IF o = "ok"
           THEN /\ \E tc \in TotalCounts, cs \in ListingCampaigns(listed) :
                     /\ campaign_page' = [totalCount |-> tc, campaigns |-> cs]
                     /\ listed' = listed \cup {cs[i] : i \in 1..Len(cs)}
                /\ page_activity' = {}
                /\ Goto("ceiling_guard")
           ELSE /\ IF Retries(tries + 1, o)
                   THEN Goto("listing_backoff")
                   ELSE Raise("RequestException")
                /\ UNCHANGED << campaign_page, listed, page_activity >>
    /\ UNCHANGED << inputVars, obsVars, stream_idx, stVars, offset, campaigns,
                    perfVars, clockVars, emits, first_from >>

\* backoff sleeps interval plus jitter before the next attempt
ListingBackoff ==
    /\ pc = "listing_backoff"
    /\ elapsed' = Advance(elapsed, BACKOFF_INTERVAL)
    /\ last_outcome' = "none"
    /\ Goto("get_campaigns_page")
    /\ UNCHANGED << inputVars, obsVars, stream_idx, stVars, pageVars, perfVars,
                    tries, to_sleep, monVars >>

\* the guard of get_campaign_pages, then the yield to sync_campaigns
CeilingGuard ==
    /\ pc = "ceiling_guard"
    /\ IF CeilingExceeded(campaign_page.totalCount)
       THEN Raise("TooManyCampaigns") /\ UNCHANGED << campaigns, reqVars >>
       ELSE /\ campaigns' = campaign_page.campaigns
            /\ NewCall
            /\ Goto("sync_campaign_page")
    /\ UNCHANGED << inputVars, obsVars, stream_idx, stVars, offset,
                    campaign_page, listed, perfVars, clockVars, monVars >>

\* singer.write_record(name, ...): the record goes to the output whether or
\* not a schema was written for the name
WriteRecordUnder(name) ==
    /\ recorded' = recorded \cup {name}
    /\ early' = IF announced[name] = 0 THEN early \cup {name} ELSE early

\* for campaign in campaigns: write the record, then sync its performance
\* when 'campaign_performance' is selected
SyncCampaign ==
    /\ pc = "sync_campaign_page"
    /\ campaigns /= << >>
    /\ campaigns' = Tail(campaigns)
    /\ emits' = [emits EXCEPT ![Head(campaigns)] = @ + 1]
    /\ page_activity' = page_activity \cup {"record"}
    /\ WriteRecordUnder("campaign")
    /\ IF "campaign_performance" \in selected
       THEN campaign' = Head(campaigns) /\ Goto("sync_performance")
       ELSE campaign' = campaign /\ Goto("sync_campaign_page")
    /\ UNCHANGED << inputVars, stream_idx, stVars, offset, campaign_page,
                    listed, date_ranges, date_range, results, has_total,
                    to_emit, emitted, reqVars, clockVars, first_from,
                    announced, planned, calls >>

\* the page is synced: get_campaign_pages resumes after its yield and either
\* requests the next page or ends, which ends sync_campaigns
NextPage ==
    /\ pc = "sync_campaign_page"
    /\ campaigns = << >>
    /\ IF MoreCampaigns(offset, campaign_page.totalCount)
       THEN /\ offset' = NextOffset(offset)
            /\ Goto("get_campaigns_page")
            /\ UNCHANGED << stream_idx, campaign_page, page_activity >>
       ELSE /\ Goto("streams")
            /\ stream_idx' = stream_idx + 1
            /\ offset' = 0
            /\ campaign_page' = NoPage
            /\ page_activity' = {}
    /\ UNCHANGED << inputVars, obsVars, stVars, campaigns, listed, perfVars,
                    reqVars, clockVars, emits, first_from >>

(***************************************************************************)
(* sync_performance                                                        *)
(***************************************************************************)
\* state.get(table_name, {}).get(state_sub_id, DEFAULT_START_DATE)
Cursor(st, id, default) == IF st[id] = NoDate THEN default ELSE st[id]

\* variant: the sync starts at the cursor itself
FromDate_exact(st, id, default) == Cursor(st, id, default)

\* sync 2 days before last saved date, or DEFAULT_START_DATE
FromDate(st, id, default) == Cursor(st, id, default) - OVERLAP_DAYS

\* variant: the first record in place of the last
NewFromDate_first(performance) == performance[1]

\* last_record = performance[-1]; new_from_date = last_record.get('fromDate')
NewFromDate(performance) == Last(performance)

SyncPerformance ==
    /\ pc = "sync_performance"
    /\ date_ranges' = get_date_ranges(FromDate(state, campaign, start_date),
                                      Today,
                                      REPORTS_MARKETERS_PERIODIC_MAX_LIMIT)
    /\ planned' = Len(date_ranges')
    /\ calls' = 0
    /\ Goto("date_ranges")
    /\ UNCHANGED << inputVars, stream_idx, stVars, pageVars, campaign,
                    date_range, results, has_total, to_emit, emitted,
                    reqVars, clockVars, monVars, announced, recorded, early >>

\* for date_range in date_ranges: the parameters of the next request
NextDateRange ==
    /\ pc = "date_ranges"
    /\ date_ranges /= << >>
    /\ date_range' = Head(date_ranges)
    /\ date_ranges' = Tail(date_ranges)
    /\ NewCall
    /\ Goto("report_request")
    /\ UNCHANGED << inputVars, obsVars, stream_idx, stVars, pageVars, campaign,
                    results, has_total, to_emit, emitted, clockVars, monVars >>

\* the windows are exhausted: back in sync_campaign_page's loop
DateRangesDone ==
    /\ pc = "date_ranges"
    /\ date_ranges = << >>
    /\ campaign' = 0
    /\ planned' = 0
    /\ calls' = 0
    /\ Goto("sync_campaign_page")
    /\ UNCHANGED << inputVars, stream_idx, stVars, pageVars, date_ranges,
                    date_range, results, has_total, to_emit, emitted,
                    reqVars, clockVars, monVars, announced, recorded, early >>

\* one attempt of request() for the report endpoint
ReportRequest ==
    /\ pc = "report_request"
    /\ tries' = tries + 1
    /\ first_from' = IF first_from[campaign] = NoDate
                     THEN [first_from EXCEPT ![campaign] = date_range.from_date]
                     ELSE first_from
    /\ page_activity' = page_activity \cup {"report"}
    /\ calls' = IF tries = 0 THEN calls + 1 ELSE calls
    /\ elapsed' = 0
    /\ \E o \in Outcomes :
        /\ last_outcome' = o
        /\ IF o = "ok"
           THEN /\ results' \in ReportResults(date_range)
                /\ has_total' \in BOOLEAN
                /\ Goto("report_response")
           ELSE /\ IF Retries(tries + 1, o)
                   THEN Goto("report_backoff")
                   ELSE Raise("RequestException")
                /\ UNCHANGED << results, has_total >>
    /\ UNCHANGED << inputVars, stream_idx, stVars, pageVars, campaign,
                    date_ranges, date_range, to_emit, emitted, to_sleep,
                    emits, announced, recorded, early, planned >>

ReportBackoff ==
    /\ pc = "report_backoff"
    /\ elapsed' = Advance(elapsed, BACKOFF_INTERVAL)
    /\ last_outcome' = "none"
    /\ Goto("report_request")
    /\ UNCHANGED << inputVars, obsVars, stream_idx, stVars, pageVars, perfVars,
                    tries, to_sleep, monVars >>

\* the comparison with totalResults, then last_request_end = utils.now() and
\* the parse of the rows
ReportResponse ==
    /\ pc = "report_response"
    /\ IF has_total
       THEN /\ elapsed' = 0
            /\ to_emit' = results
            /\ emitted' = << >>
            /\ NewCall
            /\ Goto("write_records")
       ELSE /\ Raise("TypeError")
            /\ UNCHANGED << elapsed, to_emit, emitted, reqVars >>
    /\ UNCHANGED << inputVars, obsVars, stream_idx, stVars, pageVars, campaign,
                    date_ranges, date_range, results, has_total, to_sleep,
                    monVars >>

\* for record in performance: singer.write_record
WriteRecord ==
    /\ pc = "write_records"
    /\ to_emit /= << >>
    /\ emitted' = Append(emitted, Head(to_emit))
    /\ to_emit' = Tail(to_emit)
    /\ page_activity' = page_activity \cup {"record"}
    /\ WriteRecordUnder("campaign_performance")
    /\ UNCHANGED << ctlVars, inputVars, stream_idx, stVars, pageVars,
                    campaign, date_ranges, date_range, results, has_total,
                    reqVars, clockVars, emits, first_from, announced,
                    planned, calls >>

\* state[table_name][state_sub_id] = new_from_date
UpdateState ==
    /\ pc = "write_records"
    /\ to_emit = << >>
    /\ IF results = << >>
       THEN Raise("IndexError") /\ state' = state
       ELSE /\ state' = [state EXCEPT ![campaign] = NewFromDate(results)]
            /\ Goto("write_state")
    /\ UNCHANGED << inputVars, obsVars, stream_idx, persisted, pageVars,
                    perfVars, reqVars, clockVars, monVars >>

\* variant: the snapshot written is the one written before
Snapshot_stale(st) == persisted

\* what singer.write_state(state) writes
Snapshot(st) == st

WriteState ==
    /\ pc = "write_state"
    /\ persisted' = Snapshot(state)
    /\ page_activity' = page_activity \cup {"state"}
    /\ Goto("pace")
    /\ UNCHANGED << inputVars, obsVars, stream_idx, state, pageVars, perfVars,
                    reqVars, clockVars, emits, first_from >>

\* variant: the pacer never sleeps
MustSleep_never(t) == FALSE

\* (time.time() - last_request_end.timestamp()) < 30
MustSleep(t) == t < MIN_SPACING

\* to_sleep = 30 - (time.time() - last_request_end.timestamp())
ToSleep(t) == MIN_SPACING - t

\* the iteration of the for loop ends: its locals are dead
EndWindow ==
    /\ date_range' = NoRange
    /\ results' = << >>
    /\ emitted' = << >>
    /\ to_sleep' = 0
    /\ Goto("date_ranges")

\* the pacer's test, which reads the clock
Pace ==
    /\ pc = "pace"
    /\ IF MustSleep(elapsed)
       THEN /\ Goto("to_sleep")
            /\ UNCHANGED << date_range, results, emitted, to_sleep >>
       ELSE EndWindow
    /\ UNCHANGED << inputVars, obsVars, stream_idx, stVars, pageVars, campaign,
                    date_ranges, has_total, to_emit, reqVars, elapsed,
                    monVars >>

\* the pacer's computation of to_sleep, which reads the clock again
ComputeSleep ==
    /\ pc = "to_sleep"
    /\ to_sleep' = ToSleep(elapsed)
    /\ Goto("sleep")
    /\ UNCHANGED << inputVars, obsVars, stream_idx, stVars, pageVars, perfVars,
                    reqVars, elapsed, monVars >>

\* time.sleep(to_sleep): a negative length raises ValueError
Sleep ==
    /\ pc = "sleep"
    /\ IF to_sleep < 0
       THEN /\ Raise("ValueError")
            /\ UNCHANGED << date_range, results, emitted, clockVars >>
       ELSE /\ elapsed' = Advance(elapsed, to_sleep)
            /\ EndWindow
    /\ UNCHANGED << inputVars, obsVars, stream_idx, stVars, pageVars, campaign,
                    date_ranges, has_total, to_emit, reqVars, monVars >>

(***************************************************************************)
(* The environment: the clock, and the next invocation of the tap.         *)
(***************************************************************************)
Running == pc \notin {"done", "aborted"}

\* a step that does not read the clock commutes with the clock's advance:
\* the time that has passed is added where the pacer is about to read it
Tick ==
    /\ pc \in {"pace", "to_sleep"}
    /\ elapsed \notin {NoTime, TimeCap}
    /\ \E d \in TickSteps : elapsed' = Advance(elapsed, d)
    /\ UNCHANGED << ctlVars, inputVars, obsVars, stream_idx, stVars, pageVars,
                    perfVars, reqVars, to_sleep, monVars >>

\* the process has ended; the tap is invoked again with the state the run
\* persisted last (the state it was given when it persisted none)
NextRun ==
    /\ ~Running
    /\ stateFile' = IF persisted = EmptyState THEN stateFile ELSE persisted
    /\ pc' = "do_sync"
    /\ abort' = "none"
    /\ stream_idx' = 1
    /\ state' = EmptyState
    /\ persisted' = EmptyState
    /\ offset' = 0
    /\ campaign_page' = NoPage
    /\ campaigns' = << >>
    /\ listed' = {}
    /\ campaign' = 0
    /\ date_ranges' = << >>
    /\ date_range' = NoRange
    /\ results' = << >>
    /\ has_total' = TRUE
    /\ to_emit' = << >>
    /\ emitted' = << >>
    /\ tries' = 0
    /\ last_outcome' = "none"
    /\ elapsed' = NoTime
    /\ to_sleep' = 0
    /\ emits' = [i \in Ids |-> 0]
    /\ first_from' = EmptyState
    /\ page_activity' = {}
    /\ announced' = [n \in StreamIds |-> 0]
    /\ recorded' = {}
    /\ early' = {}
    /\ planned' = 0
    /\ calls' = 0
    /\ UNCHANGED << config, start_date, selected, harnessVars >>

Next ==
    \/ DoSync
    \/ SkipStream
    \/ SyncStream
    \/ StreamsDone
    \/ GetCampaignsPage
    \/ ListingBackoff
    \/ CeilingGuard
    \/ SyncCampaign
    \/ NextPage
    \/ SyncPerformance
    \/ NextDateRange
    \/ DateRangesDone
    \/ ReportRequest
    \/ ReportBackoff
    \/ ReportResponse
    \/ WriteRecord
    \/ UpdateState
    \/ WriteState
    \/ Pace
    \/ ComputeSleep
    \/ Sleep
    \/ Tick
    \/ NextRun

Spec == Init /\ [][Next]_vars

\* one invocation of the tap
NextOneRun ==
    \/ DoSync
    \/ SkipStream
    \/ SyncStream
    \/ StreamsDone
    \/ GetCampaignsPage
    \/ ListingBackoff
    \/ CeilingGuard
    \/ SyncCampaign
    \/ NextPage
    \/ SyncPerformance
    \/ NextDateRange
    \/ DateRangesDone
    \/ ReportRequest
    \/ ReportBackoff
    \/ ReportResponse
    \/ WriteRecord
    \/ UpdateState
    \/ WriteState
    \/ Pace
    \/ ComputeSleep
    \/ Sleep
    \/ Tick

SpecOneRun == Init /\ [][NextOneRun]_vars

(***************************************************************************)
(* Harness of get_date_ranges: the function applied to bounded inputs.     *)
(***************************************************************************)
mainIdleVars == << abort, stateFile, config, start_date, selected, stream_idx,
                   stVars, campaigns, listed, campaign, date_range, results,
                   has_total, to_emit, emitted, reqVars, clockVars, monVars,
                   obsVars >>

RangesInit ==
    /\ pc = "get_date_ranges"
    /\ Fresh
    /\ listing_total = 0
    /\ requested = << >>
    /\ yielded = << >>
    /\ yielded_pages = 0
    /\ stateFile = EmptyState
    /\ config = REQUIRED_CONFIG_KEYS
    /\ start_date = Today
    /\ selected = {}
    /\ dr_start \in 0..MaxDay
    /\ dr_end \in 0..MaxDay
    /\ dr_interval \in 1..MaxInterval

GetDateRanges ==
    /\ pc = "get_date_ranges"
    /\ date_ranges' = get_date_ranges(dr_start, dr_end, dr_interval)
    /\ pc' = "returned"
    /\ UNCHANGED << mainIdleVars, harnessVars, offset, campaign_page >>

SpecRanges == RangesInit /\ [][GetDateRanges]_vars

(***************************************************************************)
(* Harness of get_campaign_pages: the generator driven to its end over a   *)
(* synthetic listing of listing_total campaigns, numbered from 1, which    *)
(* reports totalCount = listing_total on every page and returns the        *)
(* campaigns offset+1 .. min(offset+limit, listing_total) at each offset.  *)
(***************************************************************************)
SyntheticPage(n, off) ==
    [totalCount |-> n,
     campaigns |-> [i \in 1..Max(0, Min(MARKETERS_CAMPAIGNS_MAX_LIMIT, n - off))
                       |-> off + i]]

PagesInit ==
    /\ pc = "get_campaigns_page"
    /\ Fresh
    /\ stateFile = EmptyState
    /\ config = REQUIRED_CONFIG_KEYS
    /\ start_date = Today
    /\ selected = {}
    /\ listing_total \in 0..(TAP_CAMPAIGN_COUNT_ERROR_CEILING + 1)
    /\ requested = << >>
    /\ yielded = << >>
    /\ yielded_pages = 0
    /\ dr_start = 0
    /\ dr_end = 0
    /\ dr_interval = 1

\* campaign_page = get_campaigns_page(account_id, access_token, offset)
PagesRequest ==
    /\ pc = "get_campaigns_page"
    /\ requested' = Append(requested, offset)
    /\ campaign_page' = SyntheticPage(listing_total, offset)
    /\ pc' = "ceiling_guard"
    /\ UNCHANGED << mainIdleVars, date_ranges, offset, listing_total, yielded,
                    yielded_pages, dr_start, dr_end, dr_interval >>

\* the guard, then yield campaign_page
PagesGuard ==
    /\ pc = "ceiling_guard"
    /\ IF CeilingExceeded(campaign_page.totalCount)
       THEN /\ Raise("TooManyCampaigns")
            /\ UNCHANGED << yielded, yielded_pages >>
       ELSE /\ yielded' = yielded \o campaign_page.campaigns
            /\ yielded_pages' = yielded_pages + 1
            /\ Goto("yielded")
    /\ UNCHANGED << stateFile, config, start_date, selected, stream_idx,
                    stVars, pageVars, perfVars, reqVars, clockVars, monVars,
                    obsVars, listing_total, requested, dr_start, dr_end,
                    dr_interval >>

\* the generator resumed after its yield
PagesResume ==
    /\ pc = "yielded"
    /\ IF MoreCampaigns(offset, campaign_page.totalCount)
       THEN offset' = NextOffset(offset)
            /\ pc' = "get_campaigns_page"
       ELSE offset' = offset /\ pc' = "finished"
    /\ UNCHANGED << mainIdleVars, harnessVars, date_ranges, campaign_page >>

PagesNext ==
    \/ PagesRequest
    \/ PagesGuard
    \/ PagesResume

SpecPages == PagesInit /\ [][PagesNext]_vars

(***************************************************************************)
(* Harness of get_campaign_pages over an arbitrary listing: each response  *)
(* reports a totalCount of its own, whatever the earlier pages reported.   *)
(* The campaigns of the pages play no part in the generator's control and  *)
(* are left empty.                                                         *)
(***************************************************************************)
AnyTotals == 0..(TAP_CAMPAIGN_COUNT_ERROR_CEILING + 1)

PagesAnyInit ==
    /\ PagesInit
    /\ listing_total = 0

\* campaign_page = get_campaigns_page(account_id, access_token, offset)
PagesRequestAny ==
    /\ pc = "get_campaigns_page"
    /\ requested' = Append(requested, offset)
    /\ \E tc \in AnyTotals :
           campaign_page' = [totalCount |-> tc, campaigns |-> << >>]
    /\ pc' = "ceiling_guard"
    /\ UNCHANGED << mainIdleVars, date_ranges, offset, listing_total, yielded,
                    yielded_pages, dr_start, dr_end, dr_interval >>

PagesAnyNext ==
    \/ PagesRequestAny
    \/ PagesGuard
    \/ PagesResume

SpecPagesAny == PagesAnyInit /\ [][PagesAnyNext]_vars

(***************************************************************************)
(* The claims.                                                             *)
(***************************************************************************)
Retryable == {"network", "http429", "http5xx"}
ReportPcs == {"report_request", "report_backoff", "report_response"}
AfterWindowPcs == {"pace", "to_sleep", "sleep"}

\* C1: every write of state['campaign_performance'][id] by sync_performance
\* stores a date that is not earlier than the date the id already holds,
\* whatever rows the report endpoint returns for the window.
C1_CursorNeverRewound ==
    [][\A id \in Ids : state[id] /= NoDate => state'[id] >= state[id]]_vars

\* C2: when the previous run persisted a checkpoint for a campaign, the first
\* report request of this run for that campaign starts 2 days before that
\* checkpoint (and not 2 days before the configured start date).
C2_ResumesFromCheckpoint ==
    \A id \in Ids :
        (stateFile[id] /= NoDate /\ first_from[id] /= NoDate)
            => first_from[id] = stateFile[id] - OVERLAP_DAYS

\* windows rs tile [start, end] with windows of at most n days
TilesExactly(rs, start, end, n) ==
    /\ Len(rs) >= 1
    /\ rs[1].from_date = start
    /\ \A i \in 2..Len(rs) : rs[i].from_date = rs[i - 1].to_date + 1
    /\ \A i \in 1..Len(rs) :
        /\ rs[i].from_date <= rs[i].to_date
        /\ rs[i].to_date - rs[i].from_date + 1 <= n
    /\ rs[Len(rs)].to_date = end

\* C3: for every start <= end (start = end included) and every window length
\* >= 1, the windows returned by get_date_ranges tile [start, end] exactly.
C3_PlannerTiles ==
    (pc = "returned" /\ dr_start <= dr_end)
        => TilesExactly(date_ranges, dr_start, dr_end, dr_interval)

Ceil(n, d) == (n + d - 1) \div d

\* the offsets 0, P, 2P, ... of k requests
Offsets(k) == [i \in 1..k |-> (i - 1) * MARKETERS_CAMPAIGNS_MAX_LIMIT]

\* the generator over the synthetic listing ends without an error having
\* yielded k pages, requested at the offsets 0, P, 2P, ..., whose items taken
\* together are the campaigns of the listing, each once and in order
PagesYielded(k) ==
    /\ (listing_total <= TAP_CAMPAIGN_COUNT_ERROR_CEILING => pc /= "aborted")
    /\ pc = "finished" =>
        /\ yielded_pages = k
        /\ requested = Offsets(k)
        /\ yielded = [i \in 1..listing_total |-> i]

\* C4 as stated: for a listing that reports totalCount = N on every page
\* (0 <= N <= ceiling), get_campaign_pages yields exactly ceil(N/50) pages,
\* requested at offsets 0, 50, 100, ..., whose items together have length N.
C4_PagesCeilOriginal ==
    PagesYielded(Ceil(listing_total, MARKETERS_CAMPAIGNS_MAX_LIMIT))

\* C4 as amended: the same, with exactly ceil(N/50) pages when N >= 1 and
\* exactly one page, which is empty, when N = 0.
C4_PagesCeil ==
    PagesYielded(Max(1, Ceil(listing_total, MARKETERS_CAMPAIGNS_MAX_LIMIT)))

C4_Witness ==
    /\ pc = "finished"
    /\ listing_total = 2 * MARKETERS_CAMPAIGNS_MAX_LIMIT + 1
    /\ yielded_pages = 3
    /\ Len(yielded) = listing_total

\* C5: a page that reports a totalCount above the ceiling is never yielded:
\* the run is about to evaluate the guard or has failed with the ceiling
\* error, and since the page was retrieved (for the first page: since the
\* walk began) no record was written, no report request was made and no state
\* was persisted.
C5_CeilingGuard ==
    campaign_page.totalCount > TAP_CAMPAIGN_COUNT_ERROR_CEILING =>
        /\ pc \in {"ceiling_guard", "aborted"}
        /\ pc = "aborted" => abort = "TooManyCampaigns"
        /\ page_activity = {}
        /\ campaigns = << >>

C5_Witness ==
    /\ pc = "aborted"
    /\ abort = "TooManyCampaigns"
    /\ offset = 0
    /\ campaign_page.totalCount > TAP_CAMPAIGN_COUNT_ERROR_CEILING
    /\ campaign_page.campaigns /= << >>
    /\ \A id \in Ids : emits[id] = 0

\* C6: a request to the report endpoint starts at least 30 seconds after the
\* previous request to it ended, within a campaign and from one campaign to
\* the next.
C6_RateLimited ==
    pc = "report_request" => (elapsed = NoTime \/ elapsed >= MIN_SPACING)

C6_Witness ==
    /\ pc = "report_request"
    /\ tries = 0
    /\ elapsed >= MIN_SPACING
    /\ campaign = 2
    /\ first_from[1] /= NoDate
    /\ first_from[2] = NoDate

\* C7: after a window is processed, the cursor of the campaign in the state
\* and in the snapshot persisted for the window equal the fromDate of the
\* last record written for the window.
C7_CursorIsLastEmitted ==
    pc \in AfterWindowPcs =>
        /\ emitted /= << >>
        /\ state[campaign] = Last(emitted)
        /\ persisted[campaign] = Last(emitted)

C7_Witness ==
    /\ pc = "pace"
    /\ Len(emitted) = 2
    /\ emitted[1] < emitted[2]
    /\ persisted[campaign] = emitted[2]

\* C8: the records of a window are all written, in the order of the rows of
\* the response, before the cursor is updated; the updated state is persisted
\* next, with nothing written or requested in between; and no report request
\* is made while the state differs from the persisted snapshot.
C8_CheckpointAfterEmit ==
    /\ pc = "write_state" => (to_emit = << >> /\ emitted = results)
    /\ state /= persisted => pc = "write_state"
    /\ pc \in ReportPcs => state = persisted
    /\ pc \in AfterWindowPcs => (state = persisted /\ emitted = results)

C8_Witness ==
    /\ pc = "write_state"
    /\ Len(emitted) = 2
    /\ state /= persisted
    /\ persisted[campaign] /= NoDate

\* C9: a call of request() makes at most 5 attempts; an attempt that fails
\* with a network error, HTTP 429 or HTTP 5xx is retried while fewer than 5
\* attempts were made; HTTP 4xx other than 429 is never retried; and the
\* error of the last attempt made propagates.
C9_RetryPolicy ==
    /\ tries <= MAX_TRIES
    /\ last_outcome = "http4xx" => (pc = "aborted" /\ abort = "RequestException")
    /\ (last_outcome \in Retryable /\ tries < MAX_TRIES)
            => pc \in {"listing_backoff", "report_backoff"}
    /\ (last_outcome \in Retryable /\ tries = MAX_TRIES)
            => (pc = "aborted" /\ abort = "RequestException")
    /\ abort = "RequestException" =>
            \/ last_outcome = "http4xx"
            \/ (last_outcome \in Retryable /\ tries = MAX_TRIES)

C9_Witness ==
    /\ pc = "aborted"
    /\ abort = "RequestException"
    /\ tries = MAX_TRIES
    /\ last_outcome = "http5xx"

\* C10: in one run every campaign the listing returned is written as a
\* 'campaign' record exactly once, whatever streams are selected.
C10_CampaignEmittedOnce ==
    pc = "done" =>
        \A id \in Ids :
            /\ emits[id] <= 1
            /\ id \in listed => emits[id] = 1

\* C11: for every stream name under which a record has been written in the
\* run, the schema of that name has been written exactly once, and it was
\* written before the first record under that name.
C11_SchemaAnnouncedOnceAndFirst ==
    \A n \in recorded : announced[n] = 1 /\ n \notin early

\* C12: a report response without a totalResults field does not abort the
\* run: the run goes on to write the rows of the window and its checkpoint.
C12_AbsentTotalProceeds ==
    ~has_total => pc /= "aborted"

\* the running request() call is the first one of the sync_performance call
InFirstCall ==
    /\ pc \in ReportPcs
    /\ IF pc = "report_request" /\ tries = 0 THEN calls = 0 ELSE calls = 1

\* C13: in a call of sync_performance for a campaign whose cursor is a date
\* c <= today (the start date when the campaign has none), the first report
\* request has from = c - 2; when today - (c - 2) < 500 the plan is the one
\* window [c - 2, today]; and the call makes one report request per planned
\* window, hence exactly one for a single window.
C13_SyncStartSingleWindow ==
    LET c == Cursor(state, campaign, start_date)
    IN  /\ (pc = "date_ranges" /\ calls = 0 /\ c <= Today) =>
               /\ planned >= 1
               /\ Len(date_ranges) = planned
               /\ date_ranges[1].from_date = c - OVERLAP_DAYS
               /\ (Today - (c - OVERLAP_DAYS))
                      < REPORTS_MARKETERS_PERIODIC_MAX_LIMIT =>
                      date_ranges = << [from_date |-> c - OVERLAP_DAYS,
                                        to_date |-> Today] >>
        /\ (InFirstCall /\ c <= Today) =>
               date_range.from_date = c - OVERLAP_DAYS
        /\ calls <= planned
        /\ (pc = "date_ranges" /\ date_ranges = << >>) => calls = planned

\* a campaign synced before in the run, hence with a checkpoint, has been
\* synced again with a single window
C13_Witness ==
    /\ pc = "date_ranges"
    /\ date_ranges = << >>
    /\ emits[campaign] = 2
    /\ planned = 1
    /\ calls = 1

\* the positions inside a call of sync_performance, once the plan is made
PerformancePcs ==
    {"date_ranges", "write_records", "write_state"} \cup ReportPcs
        \cup AfterWindowPcs

\* C14: get_date_ranges returns the empty sequence when start > end, so a
\* call of sync_performance whose from_date is after today plans no window,
\* makes no report request and returns at once; a run whose start date puts
\* from_date after today writes no 'campaign_performance' record, makes no
\* report request and leaves every checkpoint as it was.
C14_EmptyPlanNoWork ==
    \* the function alone, on the planner harness's inputs
    /\ pc = "do_sync" =>
           \A s \in 0..MaxDay, e \in 0..MaxDay, i \in 1..MaxInterval :
               s > e => get_date_ranges(s, e, i) = << >>
    /\ (pc \in PerformancePcs
            /\ FromDate(state, campaign, start_date) > Today) =>
           /\ pc = "date_ranges"
           /\ date_ranges = << >>
           /\ planned = 0
           /\ calls = 0
    /\ start_date - OVERLAP_DAYS > Today =>
           /\ state = EmptyState
           /\ persisted = EmptyState
           /\ first_from = EmptyState
           /\ "campaign_performance" \notin recorded

\* sync_performance has planned for a campaign whose from_date is after today
C14_Witness ==
    /\ pc = "date_ranges"
    /\ campaign /= 0
    /\ FromDate(state, campaign, start_date) > Today

\* C15: when account_id, access_token or start_date is absent from the
\* config, do_sync raises before it writes a schema, requests anything from
\* the API, writes a record or writes the state.
C15_MissingConfigFatal ==
    (\E k \in {"account_id", "access_token", "start_date"} : k \notin config) =>
        /\ pc \in {"do_sync", "aborted"}
        /\ pc = "aborted" => abort = "RuntimeError"
        /\ \A n \in StreamIds : announced[n] = 0
        /\ recorded = {}
        /\ persisted = EmptyState
        /\ tries = 0
        /\ campaign_page = NoPage
        /\ first_from = EmptyState

\* do_sync has raised on a config that lacks a required key
C15_Witness ==
    /\ pc = "aborted"
    /\ abort = "RuntimeError"
    /\ "start_date" \notin config
    /\ selected = StreamIds

\* the conditions the specification lists as fatal: the ceiling guard, the
\* missing required keys, a request failure that is not retried away
FatalConditions == {"TooManyCampaigns", "RuntimeError", "RequestException"}

\* C16: a run aborts only on one of the fatal conditions; in particular it
\* does not abort on a report response that has zero result rows.
C16_AbortsOnlyOnFatal ==
    /\ abort /= "IndexError"
    /\ pc = "aborted" => abort \in FatalConditions

\* C17: the length the pacer passes to time.sleep is never negative, however
\* the clock advances between the pacer's test and its computation of
\* to_sleep, so that time.sleep never raises.
C17_NoNegativeSleep ==
    /\ pc = "sleep" => to_sleep >= 0
    /\ abort /= "ValueError"

\* C18: whatever totalCount each listing response reports, the offsets
\* get_campaign_pages requests are 0, 50, 100, ... in this order, each one
\* once, the next request is for the next offset of that sequence, and no
\* more than ceil(660/50) = 14 requests are made before the generator ends
\* or fails with the ceiling error.
C18_PaginationTerminates ==
    /\ requested = Offsets(Len(requested))
    /\ Len(requested) <= Ceil(TAP_CAMPAIGN_COUNT_ERROR_CEILING,
                              MARKETERS_CAMPAIGNS_MAX_LIMIT)
    /\ pc = "get_campaigns_page" =>
           offset = Len(requested) * MARKETERS_CAMPAIGNS_MAX_LIMIT

\* the generator has ended after 14 requests, on a last page whose totalCount
\* is below what the earlier pages reported
C18_Witness ==
    /\ pc = "finished"
    /\ Len(requested) = Ceil(TAP_CAMPAIGN_COUNT_ERROR_CEILING,
                             MARKETERS_CAMPAIGNS_MAX_LIMIT)
    /\ campaign_page.totalCount = 0

\* no campaign, window or row of a sync is pending
NothingPending ==
    /\ campaign = 0
    /\ date_ranges = << >>
    /\ date_range = NoRange
    /\ to_emit = << >>

\* the windows still to request are in strictly ascending from_date order,
\* all after the window being processed
AscendingWindows ==
    /\ \A i \in 1..(Len(date_ranges) - 1) :
           date_ranges[i].from_date < date_ranges[i + 1].from_date
    /\ (date_range /= NoRange /\ date_ranges /= << >>) =>
           date_range.from_date < date_ranges[1].from_date

\* C19: the run is strictly sequential. The loop over the streams is resumed
\* only from the end of the walk of the pages of the stream being synced, with
\* nothing pending; a 'campaign' record is written only when the windows
\* planned for the campaign before it have all been requested and their rows
\* written, and the call that processed them has returned; the windows of a
\* campaign are requested from the head of a plan that is in strictly
\* ascending from_date order.
C19_StrictlySequential ==
    /\ [](pc \in {"streams", "sync_campaign_page"} => NothingPending)
    /\ [](pc = "streams" =>
              campaigns = << >> /\ campaign_page = NoPage /\ offset = 0)
    /\ []AscendingWindows
    /\ [][/\ (pc /= "streams" /\ pc' = "streams") =>
                 \/ pc = "do_sync"
                 \/ /\ pc = "sync_campaign_page"
                    /\ campaigns = << >>
                    /\ ~MoreCampaigns(offset, campaign_page.totalCount)
          /\ (pc \in PerformancePcs /\ pc' = "sync_campaign_page") =>
                 date_ranges = << >> /\ calls = planned /\ to_emit = << >>
          /\ emits' /= emits => pc = "sync_campaign_page"
          /\ (pc = "date_ranges" /\ pc' = "report_request") =>
                 date_range' = Head(date_ranges)]_vars

\* the second campaign of a page has had its two windows processed, after
\* the first campaign was synced
C19_Witness ==
    /\ pc = "date_ranges"
    /\ date_ranges = << >>
    /\ campaign = 2
    /\ emits[1] = 1
    /\ planned = 2
    /\ calls = 2

\* C20: records are written only under selected stream names; and when
\* 'campaign_performance' is not selected no report request is made and no
\* state is written.
C20_OnlySelectedRecords ==
    /\ recorded \subseteq selected
    /\ "campaign_performance" \notin selected =>
           /\ first_from = EmptyState
           /\ calls = 0
           /\ persisted = EmptyState

=============================================================================
